---- MODULE Spec2Model ----
(***************************************************************************)
(* A model of cargo-dist's GitHub CI backend                               *)
(* (cargo-dist/src/backend/ci/github.rs): the runner distribution planner, *)
(* the system-dependency selector, the vendoring of pinned actions and the *)
(* writing of the workflow; and of the resolution of its layered           *)
(* configuration (cargo-dist/src/config/v1/mod.rs).                        *)
(*                                                                         *)
(* Rust strings are TLA+ strings; Option<T> is <<>> (None) or <<v>>        *)
(* (Some(v)); a HashMap / SortedMap is a function whose DOMAIN is the key  *)
(* set; a SortedSet is a set that is iterated in the order of StrLess.     *)
(***************************************************************************)
EXTENDS Integers, Sequences, FiniteSets, TLC

VARIABLES
    \* ---- GithubCiInfo::new ------------------------------------------------
    local_targets,      \* SortedSet<&TargetTriple> gathered from the releases
    custom_runners,     \* dist.github_custom_runners : HashMap<String, String>
    merge_tasks,        \* dist.merge_tasks
    dependencies,       \* SystemDependencies gathered from the releases
    plan_pc,            \* position inside GithubCiInfo::new
    local_runs,         \* the (runner, targets) entries the planner returned
    next_run,           \* index of the entry the `for` loop handles next
    tasks,              \* the GithubMatrixEntry values pushed so far
    warnings,           \* targets a warn!() was logged for, in order
    \* ---- package_install_for_targets, called on its own --------------------
    pkg_targets,        \* targets : &Vec<&TargetTriple>
    pkg_packages,       \* packages : &SystemDependencies
    pkg_pc,             \* "call" before the call, "done" after it
    pkg_result,         \* the Option<String> returned
    \* ---- vendor_repo, two invocations under one root -----------------------
    fs,                 \* the directories under `root`, by name
    fs0,                \* fs as it was before the invocations
    v_call,             \* per invocation: repo, revision, expected_hash
    v_pc,               \* per invocation: position inside vendor_repo
    v_fetched,          \* per invocation: `bytes`, once loaded
    v_hash,             \* per invocation: `hash_string`, once computed
    v_artifact,         \* per invocation: artifact_file exists in its tmp dir
    v_result,           \* per invocation: the DistResult<()> returned
    v_steps,            \* per invocation: the steps executed so far
    v_luck,             \* per invocation: how each I/O operation went
    \* ---- GithubCiInfo::write_to_disk and GithubCiInfo::check ---------------
    w_call,             \* the method called
    w_pc,               \* position inside it
    vendor_workflow_deps, \* dist.vendor_workflow_deps
    w_fs,               \* the directories under .github/actions/, by name
    w_fs0,              \* w_fs as it was before the call
    ci_file,            \* the content of the workflow file, if it exists
    ci_file0,           \* ci_file as it was before the call
    w_rendered,         \* `rendered`, once generated
    w_next,             \* index of the action the `for` loop vendors next
    w_log,              \* the vendor_repo and write calls made, in order
    w_result,           \* the DistResult<()> returned
    \* ---- workspace_config and app_config ----------------------------------
    cfg_call,           \* the function called
    in_global,          \* global_config as the caller passed it
    in_local,           \* local_config as the caller passed it
    global_config,      \* the `mut global_config` of the call
    local_config,       \* the `mut local_config` of the call
    cfg_pc,             \* index of the statement the call executes next
    config,             \* the accumulator `config`, once built
    cfg_log,            \* the statements executed so far, in order
    cfg_result          \* the resolved configuration returned

planVars == <<local_targets, custom_runners, merge_tasks, dependencies,
              plan_pc, local_runs, next_run, tasks, warnings>>

pkgVars == <<pkg_targets, pkg_packages, pkg_pc, pkg_result>>

vendorVars == <<fs, fs0, v_call, v_pc, v_fetched, v_hash, v_artifact, v_result,
                v_steps, v_luck>>

writeVars == <<w_call, w_pc, vendor_workflow_deps, w_fs, w_fs0, ci_file, ci_file0,
               w_rendered, w_next, w_log, w_result>>

configVars == <<cfg_call, in_global, in_local, global_config, local_config,
                cfg_pc, config, cfg_log, cfg_result>>

vars == <<planVars, pkgVars, vendorVars, writeVars, configVars>>

----------------------------------------------------------------------------
(* Option<T> *)
None == <<>>
Some(v) == <<v>>
IsSome(o) == o # <<>>
Unwrap(o) == o[1]

(* ---- str ------------------------------------------------------------- *)

\* The characters the modelled strings use, in ASCII order.
Alphabet == "-./0123456789=ABCDEFGHIJKLMNOPQRSTUVWXYZ_abcdefghijklmnopqrstuvwxyz"

CharAt(s, i) == SubSeq(s, i, i)

\* Position of a character in ASCII order (the order of u8 comparison).
Ord(c) == CHOOSE k \in 1..Len(Alphabet) : CharAt(Alphabet, k) = c

\* str::contains(pat)
Contains(s, pat) ==
    \E i \in 1..(Len(s) - Len(pat) + 1) : SubSeq(s, i, i + Len(pat) - 1) = pat

\* str::starts_with(pat)
StartsWith(s, pat) == Len(pat) <= Len(s) /\ SubSeq(s, 1, Len(pat)) = pat

\* str::ends_with(pat)
EndsWith(s, pat) ==
    Len(pat) <= Len(s) /\ SubSeq(s, Len(s) - Len(pat) + 1, Len(s)) = pat

\* impl Ord for str: lexicographic comparison of the bytes.
StrLess(a, b) ==
    LET n == IF Len(a) < Len(b) THEN Len(a) ELSE Len(b)
        diff == {i \in 1..n : CharAt(a, i) # CharAt(b, i)}
    IN  IF diff = {}
        THEN Len(a) < Len(b)
        ELSE LET i == CHOOSE k \in diff : \A m \in diff : k <= m
             IN  Ord(CharAt(a, i)) < Ord(CharAt(b, i))

\* Iteration order of a SortedSet<String> / of the keys of a SortedMap.
RECURSIVE SortedSeq(_)
SortedSeq(S) ==
    IF S = {} THEN <<>>
    ELSE LET m == CHOOSE x \in S : \A y \in S \ {x} : StrLess(x, y)
         IN  <<m>> \o SortedSeq(S \ {m})

\* [String]::join(sep)
RECURSIVE Join(_, _)
Join(parts, sep) ==
    IF parts = <<>> THEN ""
    ELSE IF Len(parts) = 1 THEN parts[1]
    ELSE parts[1] \o sep \o Join(Tail(parts), sep)

Range(s) == {s[i] : i \in DOMAIN s}

(* ---- runners ---------------------------------------------------------- *)

GITHUB_LINUX_RUNNER == "ubuntu-20.04"
GITHUB_MACOS_INTEL_RUNNER == "macos-12"
GITHUB_MACOS_ARM64_RUNNER == "macos-12"
GITHUB_WINDOWS_RUNNER == "windows-2019"

\* github_runner_for_target with the Windows rule tried before the macOS rules.
github_runner_windows_first(target, runners) ==
    IF target \in DOMAIN runners THEN Some(runners[target])
    ELSE IF Contains(target, "linux") THEN Some(GITHUB_LINUX_RUNNER)
    ELSE IF Contains(target, "windows") THEN Some(GITHUB_WINDOWS_RUNNER)
    ELSE IF Contains(target, "x86_64-apple") THEN Some(GITHUB_MACOS_INTEL_RUNNER)
    ELSE IF Contains(target, "aarch64-apple") THEN Some(GITHUB_MACOS_ARM64_RUNNER)
    ELSE None

\* Get the appropriate Github Runner for building a target
github_runner_for_target(target, runners) ==
    IF target \in DOMAIN runners THEN Some(runners[target])
    ELSE IF Contains(target, "linux") THEN Some(GITHUB_LINUX_RUNNER)
    ELSE IF Contains(target, "x86_64-apple") THEN Some(GITHUB_MACOS_INTEL_RUNNER)
    ELSE IF Contains(target, "aarch64-apple") THEN Some(GITHUB_MACOS_ARM64_RUNNER)
    ELSE IF Contains(target, "windows") THEN Some(GITHUB_WINDOWS_RUNNER)
    ELSE None

\* runner.unwrap_or_else(|| { warn!(..); default.to_owned() })
runner_or_default(target, runners) ==
    LET runner == github_runner_for_target(target, runners)
    IN  IF IsSome(runner) THEN Unwrap(runner) ELSE GITHUB_LINUX_RUNNER

\* The warn!() calls of one pass over the targets, in iteration order.
warned_targets(targets, runners) ==
    LET NoRunner(t) == ~IsSome(github_runner_for_target(t, runners))
    IN  SelectSeq(SortedSeq(targets), NoRunner)

\* groups.entry(runner).or_default().push(target), for each target in order
RECURSIVE merged_groups(_, _, _)
merged_groups(todo, runners, groups) ==
    IF todo = <<>> THEN groups
    ELSE LET target == Head(todo)
             runner == runner_or_default(target, runners)
             old == IF runner \in DOMAIN groups THEN groups[runner] ELSE <<>>
             new == [r \in DOMAIN groups \cup {runner} |->
                        IF r = runner THEN Append(old, target) ELSE groups[r]]
         IN  merged_groups(Tail(todo), runners, new)

\* The merged distribution with groups.insert(runner, vec![target]) in place
\* of entry(runner).or_default().push(target): a group keeps its last target.
distribute_merged_insert(targets, runners) ==
    LET groups == merged_groups(SortedSeq(targets), runners, <<>>)
        keys == SortedSeq(DOMAIN groups)
    IN  [i \in 1..Len(keys) |->
            <<keys[i], <<groups[keys[i]][Len(groups[keys[i]])]>>>>]

\* The merged distribution grouping by target instead of by runner.
distribute_merged_by_target(targets, runners) ==
    LET order == SortedSeq(targets)
        keys == SortedSeq({runner_or_default(t, runners) : t \in targets})
        Of(r) == SelectSeq(order, LAMBDA t : runner_or_default(t, runners) = r)
        entries == [i \in 1..Len(keys) |-> <<keys[i], Of(keys[i])>>]
        Split(i) == [j \in 1..Len(entries[i][2]) |->
                        <<entries[i][1], <<entries[i][2][j]>>>>]
        flat[i \in 0..Len(entries)] ==
            IF i = 0 THEN <<>> ELSE flat[i - 1] \o Split(i)
    IN  flat[Len(entries)]

\* Map targets to runners, merging the builds that share a runner.
\* The result is the SortedMap's entries in key order.
distribute_targets_to_runners_merged(targets, runners) ==
    LET groups == merged_groups(SortedSeq(targets), runners, <<>>)
        keys == SortedSeq(DOMAIN groups)
    IN  [i \in 1..Len(keys) |-> <<keys[i], groups[keys[i]]>>]

\* Map targets to runners, each target getting a runner entry of its own.
distribute_targets_to_runners_split(targets, runners) ==
    LET order == SortedSeq(targets)
    IN  [i \in 1..Len(order) |->
            <<runner_or_default(order[i], runners), <<order[i]>>>>]

(* ---- installers -------------------------------------------------------- *)

\* super::install_dist_sh_for_version / install_dist_ps1_for_version
install_dist_sh == "cargo-dist-installer.sh"
install_dist_ps1 == "cargo-dist-installer.ps1"

\* Select the cargo-dist installer approach for a given Github Runner.
\* None stands for reaching unreachable!(), a panic.
RECURSIVE install_dist_for_targets(_, _, _)
install_dist_for_targets(targets, install_sh, install_ps1) ==
    IF targets = <<>> THEN None
    ELSE IF Contains(Head(targets), "linux") \/ Contains(Head(targets), "apple")
         THEN Some(install_sh)
    ELSE IF Contains(Head(targets), "windows") THEN Some(install_ps1)
    ELSE install_dist_for_targets(Tail(targets), install_sh, install_ps1)

(* ---- system dependencies ----------------------------------------------- *)

\* DependencyKind
Build == "build"
Run == "run"

\* SystemDependencyComplex::wanted_for_target: a declaration without a
\* target list applies to every target.
wanted_for_target(package, target) ==
    IF package.targets = <<>> THEN TRUE ELSE target \in Range(package.targets)

\* SystemDependencyComplex::stage_wanted: a declaration without a stage
\* list is a build-time dependency.
stage_wanted(package, stage) ==
    IF package.stage = <<>> THEN stage = Build ELSE stage \in Range(package.stage)

UpperLetters == "ABCDEFGHIJKLMNOPQRSTUVWXYZ"
LowerLetters == "abcdefghijklmnopqrstuvwxyz"

\* str::to_ascii_lowercase
RECURSIVE to_ascii_lowercase(_)
to_ascii_lowercase(s) ==
    IF s = "" THEN ""
    ELSE LET c == CharAt(s, 1)
             ks == {k \in 1..Len(UpperLetters) : CharAt(UpperLetters, k) = c}
             l == IF ks = {} THEN c ELSE CharAt(LowerLetters, CHOOSE k \in ks : TRUE)
         IN  l \o to_ascii_lowercase(SubSeq(s, 2, Len(s)))

\* One Brewfile line per package: casks take the `cask` verb.
brewfile_line(p) ==
    LET lower == to_ascii_lowercase(p)
    IN  IF StartsWith(lower, "homebrew/cask") \/ StartsWith(lower, "homebrew/homebrew-cask")
        THEN "cask \"" \o p \o "\""
        ELSE "brew \"" \o p \o "\""

brewfile_from(packages) ==
    Join([i \in 1..Len(packages) |-> brewfile_line(packages[i])], "\n")

brew_bundle_command(packages) ==
    "cat << EOF >Brewfile\n" \o brewfile_from(packages) \o "\nEOF\n\nbrew bundle install"

\* The names of a family's declarations that pass both filters, in the
\* SortedMap's key order.
wanted_names(family, target) ==
    LET Wanted(name) == /\ wanted_for_target(family[name], target)
                        /\ stage_wanted(family[name], Build)
    IN  SelectSeq(SortedSeq(DOMAIN family), Wanted)

HomebrewTargets == {"i686-apple-darwin", "x86_64-apple-darwin", "aarch64-apple-darwin"}
AptTargets == {"i686-unknown-linux-gnu", "x86_64-unknown-linux-gnu",
               "aarch64-unknown-linux-gnu", "i686-unknown-linux-musl",
               "x86_64-unknown-linux-musl", "aarch64-unknown-linux-musl"}
ChocolateyTargets == {"i686-pc-windows-msvc", "x86_64-pc-windows-msvc",
                      "aarch64-pc-windows-msvc"}

\* The match arm for the macOS triples.
homebrew_install(target, packages) ==
    LET names == wanted_names(packages.homebrew, target)
    IN  IF names = <<>> THEN None ELSE Some(brew_bundle_command(names))

\* The Linux match arm without its `if packages.is_empty()` early return.
apt_install_always(target, packages) ==
    LET names == wanted_names(packages.apt, target)
        Render(name) ==
            LET version == packages.apt[name].version
            IN  IF IsSome(version) THEN name \o "=" \o Unwrap(version) ELSE name
        rendered == [i \in 1..Len(names) |-> Render(names[i])]
        all == IF EndsWith(target, "linux-musl")
               THEN Append(rendered, "musl-tools") ELSE rendered
    IN  Some("sudo apt-get update && sudo apt-get install " \o Join(all, " "))

\* The Linux match arm rendering every declaration by its name alone.
apt_install_unpinned(target, packages) ==
    LET names == wanted_names(packages.apt, target)
        all == IF EndsWith(target, "linux-musl")
               THEN Append(names, "musl-tools") ELSE names
    IN  IF all = <<>> THEN None
        ELSE Some("sudo apt-get update && sudo apt-get install " \o Join(all, " "))

\* The match arm for the Linux triples.
apt_install(target, packages) ==
    LET names == wanted_names(packages.apt, target)
        Render(name) ==
            LET version == packages.apt[name].version
            IN  IF IsSome(version) THEN name \o "=" \o Unwrap(version) ELSE name
        rendered == [i \in 1..Len(names) |-> Render(names[i])]
        all == IF EndsWith(target, "linux-musl")
               THEN Append(rendered, "musl-tools") ELSE rendered
    IN  IF all = <<>> THEN None
        ELSE Some("sudo apt-get update && sudo apt-get install " \o Join(all, " "))

\* The match arm for the Windows triples.
chocolatey_install(target, packages) ==
    LET names == wanted_names(packages.chocolatey, target)
        Render(name) ==
            LET version == packages.chocolatey[name].version
            IN  IF IsSome(version)
                THEN "choco install " \o name \o " --version=" \o Unwrap(version)
                ELSE "choco install " \o name
        commands == [i \in 1..Len(names) |-> Render(names[i])]
    IN  IF commands = <<>> THEN None ELSE Some(Join(commands, "\n"))

\* package_install_for_targets going on to the next target when the arm of
\* the current one finds nothing to install.
RECURSIVE package_install_skipping_empty(_, _)
package_install_skipping_empty(targets, packages) ==
    IF targets = <<>> THEN None
    ELSE LET target == Head(targets)
             found == IF target \in HomebrewTargets
                      THEN homebrew_install(target, packages)
                      ELSE IF target \in AptTargets THEN apt_install(target, packages)
                      ELSE IF target \in ChocolateyTargets
                           THEN chocolatey_install(target, packages)
                      ELSE None
         IN  IF IsSome(found) THEN found
             ELSE package_install_skipping_empty(Tail(targets), packages)

\* The command installing the system dependencies of a runner's targets.
RECURSIVE package_install_for_targets(_, _)
package_install_for_targets(targets, packages) ==
    IF targets = <<>> THEN None
    ELSE LET target == Head(targets)
         IN  IF target \in HomebrewTargets THEN homebrew_install(target, packages)
             ELSE IF target \in AptTargets THEN apt_install(target, packages)
             ELSE IF target \in ChocolateyTargets
                  THEN chocolatey_install(target, packages)
             ELSE package_install_for_targets(Tail(targets), packages)


(* ---- vendoring: the file system and the hash ----------------------------- *)

\* A directory under root: the tree of an extracted archive, whether all of
\* it is there, and the invocation that extracted it (0: it was there before).
Absent == [kind |-> "absent"]
Dir(tree, whole, by) == [kind |-> "dir", tree |-> tree, whole |-> whole, by |-> by]
IsDir(entry) == entry.kind = "dir"

\* Stand-in for sha2::Sha256 with a digest of two bytes: the first byte
\* chains every input byte, the second depends on the length and the sum.
RECURSIVE Sha256Chain(_, _)
Sha256Chain(bytes, h) ==
    IF bytes = <<>> THEN h
    ELSE Sha256Chain(Tail(bytes), (h * 31 + Head(bytes) + 1) % 256)

RECURSIVE Sum(_)
Sum(bytes) == IF bytes = <<>> THEN 0 ELSE Head(bytes) + Sum(Tail(bytes))

Sha256(bytes) == <<Sha256Chain(bytes, 106), (Len(bytes) * 9 + Sum(bytes) + 227) % 256>>

HexDigits == "0123456789abcdef"

\* write!(&mut hash_string, "{:02x}", byte) for each byte of the digest
RECURSIVE HexString(_)
HexString(digest) ==
    IF digest = <<>> THEN ""
    ELSE CharAt(HexDigits, (Head(digest) \div 16) + 1)
            \o CharAt(HexDigits, (Head(digest) % 16) + 1)
            \o HexString(Tail(digest))

hash_string_of(bytes) == HexString(Sha256(bytes))

\* A comparison of the lengths of the two digests only.
hash_accepted_by_length(hash_string, expected_hash) ==
    Len(hash_string) = Len(expected_hash)

\* hash_string != expected_hash, negated
hash_accepted(hash_string, expected_hash) == hash_string = expected_hash

\* impl Display for GithubRepoPair
repo_to_string(repo) == repo.owner \o "/" \o repo.repo

\* The URL the archive is fetched from.
url(call) ==
    "https://github.com/" \o repo_to_string(call.repo) \o "/archive/"
        \o call.revision \o ".tar.gz"

\* A destination named after the owner instead of the repo.
owner_path(call) == call.repo.owner

\* root.join(&repo.repo), as a name under root
repo_path(call) == call.repo.repo

\* root.join(format!("{}-{}", repo.repo, revision)), as a name under root
extracted_path(call) == call.repo.repo \o "-" \o call.revision

\* LocalAsset::remove_dir_all: fails on a missing directory; an I/O failure
\* leaves the directory as it was or partly removed.
RemoveDirAll(f, path, luck) ==
    IF ~IsDir(f[path]) THEN [fs |-> f, ok |-> FALSE]
    ELSE IF luck = "ok" THEN [fs |-> [f EXCEPT ![path] = Absent], ok |-> TRUE]
    ELSE IF luck = "partial"
         THEN [fs |-> [f EXCEPT ![path] = Dir(f[path].tree, FALSE, f[path].by)],
               ok |-> FALSE]
    ELSE [fs |-> f, ok |-> FALSE]

\* LocalAsset::untar_gz_all into root: the archive unpacks into its base
\* directory, over whatever is there; an I/O failure leaves nothing or a part.
UntarGzAll(f, path, bytes, by, luck) ==
    IF luck = "ok" THEN [fs |-> [f EXCEPT ![path] = Dir(bytes, TRUE, by)], ok |-> TRUE]
    ELSE IF luck = "partial"
         THEN [fs |-> [f EXCEPT ![path] = Dir(bytes, FALSE, by)], ok |-> FALSE]
    ELSE [fs |-> f, ok |-> FALSE]

\* std::fs::rename of a directory: fails if the source is missing or the
\* destination is a directory with entries, or by an I/O failure.
Rename(f, from, to, luck) ==
    IF ~IsDir(f[from]) \/ IsDir(f[to]) \/ luck # "ok" THEN [fs |-> f, ok |-> FALSE]
    ELSE [fs |-> [f EXCEPT ![to] = f[from], ![from] = Absent], ok |-> TRUE]

\* DistResult<()>
Ok == [kind |-> "Ok"]
IoError(step) == [kind |-> "Io", step |-> step]
VendoredActionHashMismatch(expected, actual, repo) ==
    [kind |-> "VendoredActionHashMismatch", expected |-> expected,
     actual |-> actual, repo |-> repo]

(* ---- configuration layers (config/v1/mod.rs) ---------------------------- *)

\* Every field of a layer, an accumulator or a resolved configuration is a
\* slot: <<>> while nothing is in it, <<v>> once it holds v. A field whose
\* Rust type is not an Option always holds a value.

\* BoolOr<T>
Bool(b) == [kind |-> "bool", bool |-> b]
Val(v) == [kind |-> "val", val |-> v]

\* The fields of a TomlLayer.
TomlLayerFields == {"dist_version", "dist", "allow_dirty", "targets", "artifacts",
                    "builds", "ci", "hosts", "installers", "publishers"}

\* A TomlLayer with nothing set.
EmptyLayer == [f \in TomlLayerFields |-> None]

\* The directories the paths of the two configuration files are relative to.
workspace_dir == "/ws"
package_root == "/ws/app"

\* Utf8Path::is_absolute
is_absolute(path) == StartsWith(path, "/")

\* Utf8Path::join with a path that is not absolute
join(base_path, path) == base_path \o "/" \o path

make_path_relative_to(path, base_path) ==
    IF ~is_absolute(path) THEN join(base_path, path) ELSE path

\* TomlLayer::make_relative_to
make_relative_to(layer, base_path) ==
    LET Paths(include) ==
            [i \in 1..Len(include) |-> make_path_relative_to(include[i], base_path)]
        Archives(archives) ==
            IF IsSome(archives.include)
            THEN [archives EXCEPT !.include = Some(Paths(Unwrap(archives.include)))]
            ELSE archives
        Extras(extras) ==
            [i \in 1..Len(extras) |->
                [extras[i] EXCEPT
                    !.working_dir = make_path_relative_to(@, base_path)]]
        Artifacts(artifacts) ==
            [artifacts EXCEPT
                !.archives = IF IsSome(@) THEN Some(Archives(Unwrap(@))) ELSE @,
                !.extra = IF IsSome(@) THEN Some(Extras(Unwrap(@))) ELSE @]
        Github(github) ==
            IF github.kind = "val" /\ IsSome(github.val.submodule_path)
            THEN Val([github.val EXCEPT
                        !.submodule_path =
                            Some(make_path_relative_to(Unwrap(@), base_path))])
            ELSE github
        Hosts(hosts) ==
            [hosts EXCEPT !.github = IF IsSome(@) THEN Some(Github(Unwrap(@))) ELSE @]
    IN  [layer EXCEPT
            !.artifacts = IF IsSome(@) THEN Some(Artifacts(Unwrap(@))) ELSE @,
            !.hosts = IF IsSome(@) THEN Some(Hosts(Unwrap(@))) ELSE @]

\* ApplyValExt::apply_val: a set value replaces the accumulator's.
apply_val(self, layer) == IF IsSome(layer) THEN Some(Unwrap(layer)) ELSE self

\* ApplyOptExt::apply_opt: a set value replaces the accumulator's option.
apply_opt(self, layer) == IF IsSome(layer) THEN layer ELSE self

\* ApplyLayer::apply_layer of a nested configuration: field by field.
nested_apply_layer(self, layer) ==
    [f \in DOMAIN self |-> apply_opt(self[f], layer[f])]

\* ApplyLayer::apply_layer of ArtifactConfig.
artifacts_apply_layer(self, layer) ==
    [archives |->
        IF IsSome(layer.archives)
        THEN [include |-> apply_val(self.archives.include,
                                    Unwrap(layer.archives).include)]
        ELSE self.archives,
     extra |-> apply_val(self.extra, layer.extra)]

\* ApplyLayerExt::apply_val_layer: a set layer is applied, an unset one is not.
apply_val_layer(self, layer) ==
    IF IsSome(layer) THEN nested_apply_layer(self, Unwrap(layer)) ELSE self

\* ApplyLayerExt::apply_val_layer of ArtifactConfig.
artifacts_apply_val_layer(self, layer) ==
    IF IsSome(layer) THEN artifacts_apply_layer(self, Unwrap(layer)) ELSE self

\* The nested inheritable configurations, nothing set.
CiConfigInheritable == [fail_fast |-> None, dispatch_releases |-> None]
HostConfigInheritable == [github |-> None]
BuildConfigInheritable == [macos_sign |-> None]
InstallerConfigInheritable == [install_path |-> None]
PublisherConfigInheritable == [prereleases |-> None]

\* ArtifactConfig::defaults_for_package
ArtifactConfigDefaults == [archives |-> [include |-> Some(<<>>)], extra |-> Some(<<>>)]

\* What the inheritance pass gives a nested field nothing has set.
CiDefaults == [fail_fast |-> FALSE, dispatch_releases |-> FALSE]
HostDefaults == [github |-> Bool(FALSE)]
BuildDefaults == [macos_sign |-> FALSE]
InstallerDefaults == [install_path |-> "CARGO_HOME"]
PublisherDefaults == [prereleases |-> FALSE]

\* apply_inheritance_for_workspace / apply_inheritance_for_package of a
\* nested configuration: a field nothing has set takes its default.
nested_apply_inheritance(self, defaults) ==
    [f \in DOMAIN self |-> IF IsSome(self[f]) THEN self[f] ELSE Some(defaults[f])]

\* WorkspaceConfigInheritable::defaults_for_workspace
defaults_for_workspace ==
    [ci |-> CiConfigInheritable,
     hosts |-> HostConfigInheritable,
     builds |-> BuildConfigInheritable,
     installers |-> InstallerConfigInheritable,
     dist_version |-> None,
     allow_dirty |-> Some(<<>>)]

\* The workspace inheritance pass handing the CI settings on as they are.
apply_inheritance_for_workspace_sparing_ci(self) ==
    [ci |-> self.ci,
     hosts |-> nested_apply_inheritance(self.hosts, HostDefaults),
     builds |-> nested_apply_inheritance(self.builds, BuildDefaults),
     installers |-> nested_apply_inheritance(self.installers, InstallerDefaults),
     dist_version |-> self.dist_version,
     allow_dirty |-> self.allow_dirty]

\* WorkspaceConfigInheritable::apply_inheritance_for_workspace
apply_inheritance_for_workspace(self) ==
    [ci |-> nested_apply_inheritance(self.ci, CiDefaults),
     hosts |-> nested_apply_inheritance(self.hosts, HostDefaults),
     builds |-> nested_apply_inheritance(self.builds, BuildDefaults),
     installers |-> nested_apply_inheritance(self.installers, InstallerDefaults),
     dist_version |-> self.dist_version,
     allow_dirty |-> self.allow_dirty]

\* The workspace merge without its dist_version line.
workspace_apply_layer_sparing_version(self, layer) ==
    [self EXCEPT
        !.ci = apply_val_layer(@, layer.ci),
        !.allow_dirty = apply_val(@, layer.allow_dirty)]

\* The workspace merge without its ci line.
workspace_apply_layer_sparing_ci(self, layer) ==
    [self EXCEPT
        !.dist_version = apply_opt(@, layer.dist_version),
        !.allow_dirty = apply_val(@, layer.allow_dirty)]

\* impl ApplyLayer for WorkspaceConfigInheritable
workspace_apply_layer(self, layer) ==
    [self EXCEPT
        !.ci = apply_val_layer(@, layer.ci),
        !.dist_version = apply_opt(@, layer.dist_version),
        !.allow_dirty = apply_val(@, layer.allow_dirty)]

\* AppConfigInheritable::defaults_for_package
defaults_for_package ==
    [artifacts |-> ArtifactConfigDefaults,
     builds |-> BuildConfigInheritable,
     hosts |-> HostConfigInheritable,
     installers |-> InstallerConfigInheritable,
     publishers |-> PublisherConfigInheritable,
     dist |-> None,
     targets |-> Some(<<>>)]

\* AppConfigInheritable::apply_inheritance_for_package
apply_inheritance_for_package(self) ==
    [artifacts |-> self.artifacts,
     builds |-> nested_apply_inheritance(self.builds, BuildDefaults),
     hosts |-> nested_apply_inheritance(self.hosts, HostDefaults),
     installers |-> nested_apply_inheritance(self.installers, InstallerDefaults),
     publishers |-> nested_apply_inheritance(self.publishers, PublisherDefaults),
     dist |-> self.dist,
     targets |-> self.targets]

\* impl ApplyLayer for AppConfigInheritable
app_apply_layer(self, layer) ==
    [self EXCEPT
        !.artifacts = artifacts_apply_val_layer(@, layer.artifacts),
        !.builds = apply_val_layer(@, layer.builds),
        !.hosts = apply_val_layer(@, layer.hosts),
        !.installers = apply_val_layer(@, layer.installers),
        !.publishers = apply_val_layer(@, layer.publishers),
        !.dist = apply_opt(@, layer.dist),
        !.targets = apply_val(@, layer.targets)]

\* The directory a configuration file's paths are relative to, if every
\* file were taken to sit in the package.
base_path_in_package(file) == package_root

\* The directory a configuration file's paths are relative to.
base_path_of(file) == IF file = "global" THEN workspace_dir ELSE package_root

\* app_config applying the package's layer before the workspace's.
app_config_local_first ==
    <<"relative_global", "relative_local", "defaults", "apply_local",
      "apply_global", "inheritance">>

\* The statements of workspace_config, in order.
workspace_config_body ==
    <<"relative_global", "defaults", "apply_global", "inheritance">>

\* The statements of app_config, in order.
app_config_body ==
    <<"relative_global", "relative_local", "defaults", "apply_global",
      "apply_local", "inheritance">>

(* ---- inputs ------------------------------------------------------------ *)

\* Bounds of the explored inputs.
MaxTargets == 3
MaxOverrides == 2
MaxGroupLen == 2
MaxDecls == 2

\* Target triples: the supported ones, one of an unknown family, one that
\* carries the Linux marker without being a supported Linux triple, and two
\* strings that carry several family markers.
Targets == {"x86_64-unknown-linux-gnu", "x86_64-unknown-linux-musl",
            "x86_64-apple-darwin", "aarch64-apple-darwin",
            "x86_64-pc-windows-msvc", "x86_64-unknown-freebsd",
            "aarch64-linux-android", "x86_64-apple-windows",
            "aarch64-apple-windows-linux"}

\* Keys and values of the explored github_custom_runners tables.
OverrideKeys == {"aarch64-apple-darwin", "x86_64-unknown-freebsd", "global"}
OverrideRunners == {"macos-14", "ubuntu-20.04"}

BoundedSubsets(S, n) == {T \in SUBSET S : Cardinality(T) <= n}

OverrideTables ==
    UNION {[K -> OverrideRunners] : K \in BoundedSubsets(OverrideKeys, MaxOverrides)}

\* SystemDependencyComplex values.
DepSpecs ==
    {[version |-> None, targets |-> <<>>, stage |-> <<>>],
     [version |-> Some("3.0"), targets |-> <<>>, stage |-> <<Build>>],
     [version |-> None, targets |-> <<>>, stage |-> <<Run>>],
     [version |-> None, stage |-> <<>>,
      targets |-> <<"x86_64-unknown-linux-gnu", "x86_64-apple-darwin">>]}

\* (family, package name) pairs a declaration may be made for.
DepSlots == {<<"apt", "libssl-dev">>, <<"apt", "cmake">>,
             <<"homebrew", "homebrew/cask/macfuse">>, <<"chocolatey", "nasm">>}

\* The SystemDependencies holding the declarations decl : slots -> DepSpecs.
SystemDependenciesOf(decl) ==
    LET Family(f) ==
            LET names == {slot[2] : slot \in {x \in DOMAIN decl : x[1] = f}}
            IN  [name \in names |-> decl[<<f, name>>]]
    IN  [homebrew |-> Family("homebrew"), apt |-> Family("apt"),
         chocolatey |-> Family("chocolatey")]

AllSystemDependencies ==
    {SystemDependenciesOf(decl) :
        decl \in UNION {[K -> DepSpecs] : K \in BoundedSubsets(DepSlots, MaxDecls)}}

NoSystemDependencies == SystemDependenciesOf(<<>>)

\* The dependencies explored together with the planner.
PlanSystemDependencies ==
    {NoSystemDependencies,
     SystemDependenciesOf(
        [slot \in {<<"apt", "libssl-dev">>, <<"chocolatey", "nasm">>} |->
            [version |-> Some("3.0"), targets |-> <<>>, stage |-> <<Build>>]])}

BoundedSeqs(S, n) == UNION {[1..k -> S] : k \in 0..n}

\* Bound of the length of the byte streams the fetch returns.
MaxArchiveLen == 2

ByteStreams == BoundedSeqs({0, 1}, MaxArchiveLen)

\* The archive upstream serves for a pinned revision.
PinnedArchive(repo, revision) ==
    IF repo.repo = "upload-artifact" \/ repo.owner = "forked" THEN <<1, 0>> ELSE <<0, 1>>

VendoredAction(owner, name, revision) ==
    [repo |-> [owner |-> owner, repo |-> name],
     revision |-> revision,
     expected_hash |->
        hash_string_of(PinnedArchive([owner |-> owner, repo |-> name], revision))]

\* (repo, revision, hash) triples vendor_repo is called with: two of the
\* pinned actions (revisions shortened), a fork that shares the repo name
\* of the first, and a repo named like the first's extracted directory.
VendoredActions ==
    {VendoredAction("actions", "download-artifact", "65a9edc"),
     VendoredAction("actions", "upload-artifact", "6546280"),
     VendoredAction("forked", "download-artifact", "0fe2a1b"),
     VendoredAction("mirror", "download-artifact-65a9edc", "23bce25")}

\* The invocations.
Procs == {1, 2}

\* Every name under root an invocation may touch.
AllPaths == UNION {{repo_path(a), extracted_path(a)} : a \in VendoredActions}

\* A copy vendored by an earlier run.
PriorCopy == Dir(<<0, 0>>, TRUE, 0)

\* How an I/O operation may go.
TreeLuck == {"ok", "failed", "partial"}
IoLuck == {"ok", "failed"}


(* ---- configuration inputs ------------------------------------------------ *)

\* Bound of the number of fields the two layers of a call set between them.
MaxSetFields == 3

\* A path relative to the configuration file that names it.
RelativePath(file) == IF file = "global" THEN "assets" ELSE "docs"

\* The values a layer's fields are explored with; the workspace's file and
\* the package's never give a field the same value.
FieldValues(file) ==
    LET global == file = "global"
        relative == RelativePath(file)
    IN  [dist_version |-> {IF global THEN "0.14.0" ELSE "0.15.0"},
         dist |-> {global},
         allow_dirty |-> {IF global THEN <<"ci">> ELSE <<"msi">>},
         targets |-> {IF global THEN <<"x86_64-unknown-linux-gnu">>
                                ELSE <<"aarch64-apple-darwin">>},
         artifacts |->
            {[archives |-> Some([include |-> Some(<<relative, "/opt/data">>)]),
              extra |-> None],
             [archives |-> None,
              extra |-> Some(<<[working_dir |-> relative]>>)]},
         builds |-> {[macos_sign |-> Some(global)]},
         ci |-> {[fail_fast |-> Some(global), dispatch_releases |-> None],
                 [fail_fast |-> None, dispatch_releases |-> Some(global)]},
         hosts |-> {[github |-> Some(Bool(global))],
                    [github |-> Some(Val([submodule_path |-> Some(relative)]))]},
         installers |-> {[install_path |-> Some(IF global THEN "~/.bin" ELSE "~/.local")]},
         publishers |-> {[prereleases |-> Some(global)]}]

Slot(values) == {None} \cup {Some(v) : v \in values}

\* The fields a layer sets.
SetFields(layer) == {f \in TomlLayerFields : IsSome(layer[f])}

\* The TomlLayer values decoded from a file that set at most n fields.
TomlLayers(file, n) ==
    LET values == FieldValues(file)
    IN  {layer \in [dist_version : Slot(values.dist_version),
                    dist : Slot(values.dist),
                    allow_dirty : Slot(values.allow_dirty),
                    targets : Slot(values.targets),
                    artifacts : Slot(values.artifacts),
                    builds : Slot(values.builds),
                    ci : Slot(values.ci),
                    hosts : Slot(values.hosts),
                    installers : Slot(values.installers),
                    publishers : Slot(values.publishers)] :
            Cardinality(SetFields(layer)) <= n}

(* ---- inputs of write_to_disk and check ---------------------------------- *)

\* GithubCiInfo::all_vendored_actions (revisions shortened).
all_vendored_actions ==
    <<VendoredAction("actions", "download-artifact", "65a9edc"),
      VendoredAction("ncipollo", "release-action", "2c591bc"),
      VendoredAction("Swatinem", "rust-cache", "23bce25"),
      VendoredAction("actions", "upload-artifact", "6546280")>>

\* Every name under .github/actions/ that vendoring them may touch.
ActionPaths ==
    UNION {{repo_path(all_vendored_actions[k]), extracted_path(all_vendored_actions[k])} :
              k \in 1..Len(all_vendored_actions)}

\* What the template renders to, and what an earlier run left in the file.
RenderedWorkflow == "release.yml of this plan"
StaleWorkflow == "release.yml of an earlier plan"

(* ---- the subsystems at rest ---------------------------------------------- *)

WriteIdle ==
    /\ w_call = "none"
    /\ w_pc = "idle"
    /\ vendor_workflow_deps = FALSE
    /\ w_fs = [p \in ActionPaths |-> Absent]
    /\ w_fs0 = w_fs
    /\ ci_file = None
    /\ ci_file0 = None
    /\ w_rendered = None
    /\ w_next = 1
    /\ w_log = <<>>
    /\ w_result = None

ConfigIdle ==
    /\ cfg_call = "none"
    /\ in_global = EmptyLayer
    /\ in_local = EmptyLayer
    /\ global_config = EmptyLayer
    /\ local_config = EmptyLayer
    /\ cfg_pc = 1
    /\ config = None
    /\ cfg_log = <<>>
    /\ cfg_result = None

(* ---- GithubCiInfo::new -------------------------------------------------- *)

VendorIdle ==
    /\ fs = [p \in AllPaths |-> Absent]
    /\ fs0 = fs
    /\ v_call = <<>>
    /\ v_pc = <<>>
    /\ v_fetched = <<>>
    /\ v_hash = <<>>
    /\ v_artifact = <<>>
    /\ v_result = <<>>
    /\ v_steps = <<>>
    /\ v_luck = <<>>

PkgIdle ==
    /\ pkg_targets = <<>>
    /\ pkg_packages = NoSystemDependencies
    /\ pkg_pc = "idle"
    /\ pkg_result = None

PlanIdle ==
    /\ local_targets = {}
    /\ custom_runners = <<>>
    /\ merge_tasks = FALSE
    /\ dependencies = NoSystemDependencies
    /\ plan_pc = "idle"
    /\ local_runs = <<>>
    /\ next_run = 1
    /\ tasks = <<>>
    /\ warnings = <<>>

InitPlan ==
    /\ PkgIdle
    /\ VendorIdle
    /\ WriteIdle
    /\ ConfigIdle
    /\ local_targets \in BoundedSubsets(Targets, MaxTargets)
    /\ custom_runners \in OverrideTables
    /\ merge_tasks \in BOOLEAN
    /\ dependencies \in PlanSystemDependencies
    /\ plan_pc = "distribute"
    /\ local_runs = <<>>
    /\ next_run = 1
    /\ tasks = <<>>
    /\ warnings = <<>>

\* "Figure out what Local Artifact tasks we need"
Distribute ==
    /\ plan_pc = "distribute"
    /\ local_runs' =
          IF merge_tasks
          THEN distribute_targets_to_runners_merged(local_targets, custom_runners)
          ELSE distribute_targets_to_runners_split(local_targets, custom_runners)
    /\ warnings' = warned_targets(local_targets, custom_runners)
    /\ plan_pc' = "tasks"
    /\ UNCHANGED <<local_targets, custom_runners, merge_tasks, dependencies,
                   next_run, tasks>>
    /\ UNCHANGED <<pkgVars, vendorVars, writeVars, configVars>>

\* " --target={target}" for each target of the group
RECURSIVE target_args(_)
target_args(targets) ==
    IF targets = <<>> THEN ""
    ELSE " --target=" \o Head(targets) \o target_args(Tail(targets))

\* The GithubMatrixEntry of one (runner, targets) entry.
matrix_entry(runner, targets, install_dist, packages) ==
    [targets |-> Some(targets),
     runner |-> Some(runner),
     dist_args |-> Some("--artifacts=local" \o target_args(targets)),
     install_dist |-> Some(install_dist),
     packages_install |-> package_install_for_targets(targets, packages)]

\* One iteration of `for (runner, targets) in local_runs` that pushes a task.
AssembleTask ==
    /\ plan_pc = "tasks"
    /\ next_run <= Len(local_runs)
    /\ LET runner == local_runs[next_run][1]
           targets == local_runs[next_run][2]
           install_dist == install_dist_for_targets(targets, install_dist_sh,
                                                    install_dist_ps1)
       IN  /\ IsSome(install_dist)
           /\ tasks' = Append(tasks, matrix_entry(runner, targets,
                                                  Unwrap(install_dist), dependencies))
    /\ next_run' = next_run + 1
    /\ UNCHANGED <<local_targets, custom_runners, merge_tasks, dependencies,
                   plan_pc, local_runs, warnings>>
    /\ UNCHANGED <<pkgVars, vendorVars, writeVars, configVars>>

\* The iteration in which install_dist_for_targets reaches unreachable!().
AssemblePanic ==
    /\ plan_pc = "tasks"
    /\ next_run <= Len(local_runs)
    /\ ~IsSome(install_dist_for_targets(local_runs[next_run][2], install_dist_sh,
                                        install_dist_ps1))
    /\ plan_pc' = "panicked"
    /\ UNCHANGED <<local_targets, custom_runners, merge_tasks, dependencies,
                   local_runs, next_run, tasks, warnings>>
    /\ UNCHANGED <<pkgVars, vendorVars, writeVars, configVars>>

\* The loop is over: GithubCiInfo { artifacts_matrix: .. } is returned.
ReturnInfo ==
    /\ plan_pc = "tasks"
    /\ next_run > Len(local_runs)
    /\ plan_pc' = "done"
    /\ UNCHANGED <<local_targets, custom_runners, merge_tasks, dependencies,
                   local_runs, next_run, tasks, warnings>>
    /\ UNCHANGED <<pkgVars, vendorVars, writeVars, configVars>>

NextPlan == Distribute \/ AssembleTask \/ AssemblePanic \/ ReturnInfo

(* ---- package_install_for_targets on any group --------------------------- *)

\* Triples of the groups explored: one per family, a musl one, and two
\* that no match arm names.
PkgTargets == {"x86_64-unknown-linux-gnu", "x86_64-unknown-linux-musl",
               "x86_64-apple-darwin", "x86_64-pc-windows-msvc",
               "x86_64-unknown-freebsd", "aarch64-linux-android"}

InitPkg ==
    /\ PlanIdle
    /\ VendorIdle
    /\ WriteIdle
    /\ ConfigIdle
    /\ pkg_targets \in BoundedSeqs(PkgTargets, MaxGroupLen)
    /\ pkg_packages \in AllSystemDependencies
    /\ pkg_pc = "call"
    /\ pkg_result = None

PackageInstall ==
    /\ pkg_pc = "call"
    /\ pkg_result' = package_install_for_targets(pkg_targets, pkg_packages)
    /\ pkg_pc' = "done"
    /\ UNCHANGED <<pkg_targets, pkg_packages>>
    /\ UNCHANGED <<planVars, vendorVars, writeVars, configVars>>

NextPkg == PackageInstall

(* ---- vendor_repo --------------------------------------------------------- *)

InitVendor ==
    /\ PlanIdle
    /\ PkgIdle
    /\ WriteIdle
    /\ ConfigIdle
    /\ v_call \in {c \in [Procs -> VendoredActions] : c[1].repo # c[2].repo}
    /\ fs0 \in {f \in [AllPaths -> {Absent, PriorCopy}] :
                  \A p \in AllPaths :
                     IsDir(f[p]) => \E i \in Procs : p = repo_path(v_call[i])}
    /\ fs = fs0
    /\ v_pc = [i \in Procs |-> "exists"]
    /\ v_fetched = [i \in Procs |-> None]
    /\ v_hash = [i \in Procs |-> None]
    /\ v_artifact = [i \in Procs |-> FALSE]
    /\ v_result = [i \in Procs |-> None]
    /\ v_steps = [i \in Procs |-> {}]
    /\ v_luck = [i \in Procs |-> [remove |-> "ok", fetch |-> "ok", write |-> "ok",
                                  untar |-> "ok", rename |-> "ok"]]

\* Invocation i goes on to `next`.
Goto(i, next) ==
    /\ v_pc' = [v_pc EXCEPT ![i] = next]
    /\ UNCHANGED v_result

\* Invocation i returns `result`; its temporary directory is dropped.
Return(i, result) ==
    /\ v_pc' = [v_pc EXCEPT ![i] = "done"]
    /\ v_result' = [v_result EXCEPT ![i] = Some(result)]

Did(i, step) == v_steps' = [v_steps EXCEPT ![i] = @ \cup {step}]

\* if repo_path.exists()
Exists(i) ==
    /\ v_pc[i] = "exists"
    /\ Goto(i, IF IsDir(fs[repo_path(v_call[i])]) THEN "remove" ELSE "fetch")
    /\ Did(i, "exists")
    /\ UNCHANGED <<fs, fs0, v_call, v_fetched, v_hash, v_artifact, v_luck>>
    /\ UNCHANGED <<planVars, pkgVars, writeVars, configVars>>

\* LocalAsset::remove_dir_all(&repo_path)?
RemovePrior(i) ==
    /\ v_pc[i] = "remove"
    /\ \E luck \in TreeLuck :
          LET removed == RemoveDirAll(fs, repo_path(v_call[i]), luck)
          IN  /\ fs' = removed.fs
              /\ v_luck' = [v_luck EXCEPT ![i].remove = luck]
              /\ IF removed.ok THEN Goto(i, "fetch")
                 ELSE Return(i, IoError("remove"))
    /\ Did(i, "remove")
    /\ UNCHANGED <<fs0, v_call, v_fetched, v_hash, v_artifact>>
    /\ UNCHANGED <<planVars, pkgVars, writeVars, configVars>>

\* handle.block_on(RemoteAsset::load_bytes(&url))?
Fetch(i) ==
    /\ v_pc[i] = "fetch"
    /\ \/ /\ v_luck' = [v_luck EXCEPT ![i].fetch = "failed"]
          /\ Return(i, IoError("fetch"))
          /\ UNCHANGED v_fetched
       \/ \E bytes \in ByteStreams :
             /\ v_fetched' = [v_fetched EXCEPT ![i] = Some(bytes)]
             /\ Goto(i, "check")
             /\ UNCHANGED v_luck
    /\ Did(i, "fetch")
    /\ UNCHANGED <<fs, fs0, v_call, v_hash, v_artifact>>
    /\ UNCHANGED <<planVars, pkgVars, writeVars, configVars>>

\* "Validate checksum before using the fetched tarball"
CheckHash(i) ==
    /\ v_pc[i] = "check"
    /\ LET hash_string == hash_string_of(Unwrap(v_fetched[i]))
       IN  /\ v_hash' = [v_hash EXCEPT ![i] = Some(hash_string)]
           /\ IF hash_accepted(hash_string, v_call[i].expected_hash)
              THEN Goto(i, "write")
              ELSE Return(i, VendoredActionHashMismatch(
                                v_call[i].expected_hash, hash_string,
                                repo_to_string(v_call[i].repo)))
    /\ Did(i, "check")
    /\ UNCHANGED <<fs, fs0, v_call, v_fetched, v_artifact, v_luck>>
    /\ UNCHANGED <<planVars, pkgVars, writeVars, configVars>>

\* create_tmp()?; std::fs::write(&artifact_file, bytes)?
WriteArtifact(i) ==
    /\ v_pc[i] = "write"
    /\ \E luck \in IoLuck :
          /\ v_luck' = [v_luck EXCEPT ![i].write = luck]
          /\ IF luck = "ok"
             THEN /\ v_artifact' = [v_artifact EXCEPT ![i] = TRUE]
                  /\ Goto(i, "untar")
             ELSE /\ UNCHANGED v_artifact
                  /\ Return(i, IoError("write"))
    /\ Did(i, "write")
    /\ UNCHANGED <<fs, fs0, v_call, v_fetched, v_hash>>
    /\ UNCHANGED <<planVars, pkgVars, writeVars, configVars>>

\* LocalAsset::untar_gz_all(&artifact_file, root)?
Untar(i) ==
    /\ v_pc[i] = "untar"
    /\ \E luck \in TreeLuck :
          LET untarred == UntarGzAll(fs, extracted_path(v_call[i]),
                                     Unwrap(v_fetched[i]), i, luck)
          IN  /\ fs' = untarred.fs
              /\ v_luck' = [v_luck EXCEPT ![i].untar = luck]
              /\ IF untarred.ok
                 THEN /\ Goto(i, "rename")
                      /\ UNCHANGED v_artifact
                 ELSE /\ Return(i, IoError("untar"))
                      /\ v_artifact' = [v_artifact EXCEPT ![i] = FALSE]
    /\ Did(i, "untar")
    /\ UNCHANGED <<fs0, v_call, v_fetched, v_hash>>
    /\ UNCHANGED <<planVars, pkgVars, writeVars, configVars>>

\* std::fs::rename(root.join(format!("{}-{}", repo.repo, revision)), repo_path)?
RenameExtracted(i) ==
    /\ v_pc[i] = "rename"
    /\ \E luck \in IoLuck :
          LET renamed == Rename(fs, extracted_path(v_call[i]),
                                repo_path(v_call[i]), luck)
          IN  /\ fs' = renamed.fs
              /\ v_luck' = [v_luck EXCEPT ![i].rename = luck]
              /\ Return(i, IF renamed.ok THEN Ok ELSE IoError("rename"))
    /\ v_artifact' = [v_artifact EXCEPT ![i] = FALSE]
    /\ Did(i, "rename")
    /\ UNCHANGED <<fs0, v_call, v_fetched, v_hash>>
    /\ UNCHANGED <<planVars, pkgVars, writeVars, configVars>>

NextVendor ==
    \E i \in Procs :
        \/ Exists(i)
        \/ RemovePrior(i)
        \/ Fetch(i)
        \/ CheckHash(i)
        \/ WriteArtifact(i)
        \/ Untar(i)
        \/ RenameExtracted(i)

\* vendor_repo run from start to end on the file system f, the fetch
\* returning `fetched` and the I/O operations going as `luck` says.
VendorAlone(call, by, f, fetched, luck) ==
    LET removed == IF IsDir(f[repo_path(call)])
                   THEN RemoveDirAll(f, repo_path(call), luck.remove)
                   ELSE [fs |-> f, ok |-> TRUE]
        hash_string == hash_string_of(fetched)
        untarred == UntarGzAll(removed.fs, extracted_path(call), fetched, by,
                               luck.untar)
        renamed == Rename(untarred.fs, extracted_path(call), repo_path(call),
                          luck.rename)
    IN  IF ~removed.ok THEN [fs |-> removed.fs, result |-> IoError("remove")]
        ELSE IF luck.fetch # "ok" THEN [fs |-> removed.fs, result |-> IoError("fetch")]
        ELSE IF ~hash_accepted(hash_string, call.expected_hash)
             THEN [fs |-> removed.fs,
                   result |-> VendoredActionHashMismatch(
                                 call.expected_hash, hash_string,
                                 repo_to_string(call.repo))]
        ELSE IF luck.write # "ok" THEN [fs |-> removed.fs, result |-> IoError("write")]
        ELSE IF ~untarred.ok THEN [fs |-> untarred.fs, result |-> IoError("untar")]
        ELSE [fs |-> renamed.fs,
              result |-> IF renamed.ok THEN Ok ELSE IoError("rename")]

(* ---- workspace_config and app_config ------------------------------------- *)

InitConfig ==
    /\ PlanIdle
    /\ PkgIdle
    /\ VendorIdle
    /\ WriteIdle
    /\ cfg_call \in {"workspace_config", "app_config"}
    /\ in_global \in TomlLayers("global", MaxSetFields)
    /\ in_local \in IF cfg_call = "app_config"
                    THEN TomlLayers("local",
                            MaxSetFields - Cardinality(SetFields(in_global)))
                    ELSE {EmptyLayer}
    /\ global_config = in_global
    /\ local_config = in_local
    /\ cfg_pc = 1
    /\ config = None
    /\ cfg_log = <<>>
    /\ cfg_result = None

\* The statements of the function called.
Body == IF cfg_call = "workspace_config" THEN workspace_config_body ELSE app_config_body

\* The call is about to execute `statement`.
At(statement) ==
    /\ cfg_call # "none"
    /\ cfg_pc <= Len(Body)
    /\ Body[cfg_pc] = statement

Executed(statement) ==
    /\ cfg_pc' = cfg_pc + 1
    /\ cfg_log' = Append(cfg_log, statement)

\* The merge of the scope the call resolves.
apply_layer(self, layer) ==
    IF cfg_call = "workspace_config" THEN workspace_apply_layer(self, layer)
    ELSE app_apply_layer(self, layer)

\* global_config.make_relative_to(&workspaces.root_workspace().workspace_dir)
MakeRelativeGlobal ==
    /\ At("relative_global")
    /\ global_config' = make_relative_to(global_config, base_path_of("global"))
    /\ Executed("relative_global")
    /\ UNCHANGED <<cfg_call, in_global, in_local, local_config, config, cfg_result>>
    /\ UNCHANGED <<planVars, pkgVars, vendorVars, writeVars>>

\* local_config.make_relative_to(&package.package_root)
MakeRelativeLocal ==
    /\ At("relative_local")
    /\ local_config' = make_relative_to(local_config, base_path_of("local"))
    /\ Executed("relative_local")
    /\ UNCHANGED <<cfg_call, in_global, in_local, global_config, config, cfg_result>>
    /\ UNCHANGED <<planVars, pkgVars, vendorVars, writeVars>>

\* let mut config = ...::defaults_for_workspace / defaults_for_package
Defaults ==
    /\ At("defaults")
    /\ config' = IF cfg_call = "workspace_config" THEN defaults_for_workspace
                 ELSE defaults_for_package
    /\ Executed("defaults")
    /\ UNCHANGED <<cfg_call, in_global, in_local, global_config, local_config,
                   cfg_result>>
    /\ UNCHANGED <<planVars, pkgVars, vendorVars, writeVars>>

\* config.apply_layer(global_config)
ApplyGlobal ==
    /\ At("apply_global")
    /\ config' = apply_layer(config, global_config)
    /\ Executed("apply_global")
    /\ UNCHANGED <<cfg_call, in_global, in_local, global_config, local_config,
                   cfg_result>>
    /\ UNCHANGED <<planVars, pkgVars, vendorVars, writeVars>>

\* config.apply_layer(local_config)
ApplyLocal ==
    /\ At("apply_local")
    /\ config' = apply_layer(config, local_config)
    /\ Executed("apply_local")
    /\ UNCHANGED <<cfg_call, in_global, in_local, global_config, local_config,
                   cfg_result>>
    /\ UNCHANGED <<planVars, pkgVars, vendorVars, writeVars>>

\* config.apply_inheritance_for_workspace / apply_inheritance_for_package
Inheritance ==
    /\ At("inheritance")
    /\ cfg_result' = Some(IF cfg_call = "workspace_config"
                          THEN apply_inheritance_for_workspace(config)
                          ELSE apply_inheritance_for_package(config))
    /\ Executed("inheritance")
    /\ UNCHANGED <<cfg_call, in_global, in_local, global_config, local_config,
                   config>>
    /\ UNCHANGED <<planVars, pkgVars, vendorVars, writeVars>>

NextConfig ==
    \/ MakeRelativeGlobal
    \/ MakeRelativeLocal
    \/ Defaults
    \/ ApplyGlobal
    \/ ApplyLocal
    \/ Inheritance

(* ---- GithubCiInfo::write_to_disk and GithubCiInfo::check ---------------- *)

\* dist.workspace_dir.join(GITHUB_CI_DIR).join(GITHUB_CI_FILE), no tag prefix
github_ci_path == ".github/workflows/release.yml"

\* Further DistResult<()> values.
RenderError == [kind |-> "Render"]
CheckFileMismatch == [kind |-> "CheckFileMismatch"]

\* An error nothing propagates.
is_err_never(result) == FALSE

\* The `?` after vendor_repo(...): an error ends write_vendored_actions.
is_err(result) == result # Ok

\* A call as w_log records it.
Called(function, argument, result) ==
    [call |-> function, argument |-> argument, result |-> result]

InitWrite ==
    /\ PlanIdle
    /\ PkgIdle
    /\ VendorIdle
    /\ ConfigIdle
    /\ w_call \in {"write_to_disk", "check"}
    /\ w_pc = "generate"
    /\ vendor_workflow_deps \in BOOLEAN
    /\ w_fs0 \in {f \in [ActionPaths -> {Absent, PriorCopy}] :
                    \A p \in ActionPaths :
                       IsDir(f[p]) =>
                          \E k \in 1..Len(all_vendored_actions) :
                             p = repo_path(all_vendored_actions[k])}
    /\ w_fs = w_fs0
    /\ ci_file0 \in {None, Some(StaleWorkflow), Some(RenderedWorkflow)}
    /\ ci_file = ci_file0
    /\ w_rendered = None
    /\ w_next = 1
    /\ w_log = <<>>
    /\ w_result = None

\* let rendered = self.generate_github_ci(dist)?
GenerateGithubCi ==
    /\ w_pc = "generate"
    /\ \E ok \in BOOLEAN :
          IF ok
          THEN /\ w_rendered' = Some(RenderedWorkflow)
               /\ w_pc' = IF w_call = "check" THEN "diff"
                          ELSE IF vendor_workflow_deps THEN "vendor" ELSE "write"
               /\ UNCHANGED w_result
          ELSE /\ w_result' = Some(RenderError)
               /\ w_pc' = "done"
               /\ UNCHANGED w_rendered
    /\ UNCHANGED <<w_call, vendor_workflow_deps, w_fs, w_fs0, ci_file, ci_file0,
                   w_next, w_log>>
    /\ UNCHANGED <<planVars, pkgVars, vendorVars, configVars>>

\* One turn of the loop of write_vendored_actions: vendor_repo(...)?
VendorNextAction ==
    /\ w_pc = "vendor"
    /\ w_next <= Len(all_vendored_actions)
    /\ \E fetched \in ByteStreams,
          luck \in [remove : TreeLuck, fetch : IoLuck, write : IoLuck,
                    untar : TreeLuck, rename : IoLuck] :
          LET call == all_vendored_actions[w_next]
              out == VendorAlone(call, w_next, w_fs, fetched, luck)
          IN  /\ w_fs' = out.fs
              /\ w_log' = Append(w_log, Called("vendor_repo",
                                               repo_to_string(call.repo), out.result))
              /\ IF is_err(out.result)
                 THEN /\ w_result' = Some(out.result)
                      /\ w_pc' = "done"
                      /\ UNCHANGED w_next
                 ELSE /\ w_next' = w_next + 1
                      /\ w_pc' = IF w_next = Len(all_vendored_actions)
                                 THEN "write" ELSE "vendor"
                      /\ UNCHANGED w_result
    /\ UNCHANGED <<w_call, vendor_workflow_deps, w_fs0, ci_file, ci_file0, w_rendered>>
    /\ UNCHANGED <<planVars, pkgVars, vendorVars, configVars>>

\* LocalAsset::write_new_all(&rendered, &ci_file)?; a failed write leaves
\* the file as it was or cut short.
WriteNewAll ==
    /\ w_pc = "write"
    /\ \E luck \in TreeLuck :
          LET result == IF luck = "ok" THEN Ok ELSE IoError("write_new_all")
          IN  /\ ci_file' = IF luck = "ok" THEN w_rendered
                            ELSE IF luck = "partial" THEN Some("") ELSE ci_file
              /\ w_log' = Append(w_log, Called("write_new_all", github_ci_path, result))
              /\ w_result' = Some(result)
    /\ w_pc' = "done"
    /\ UNCHANGED <<w_call, vendor_workflow_deps, w_fs, w_fs0, ci_file0, w_rendered,
                   w_next>>
    /\ UNCHANGED <<planVars, pkgVars, vendorVars, configVars>>

\* diff_files(&ci_file, &rendered): compares, writes nothing.
DiffFiles ==
    /\ w_pc = "diff"
    /\ w_result' = Some(IF ci_file = w_rendered THEN Ok ELSE CheckFileMismatch)
    /\ w_pc' = "done"
    /\ UNCHANGED <<w_call, vendor_workflow_deps, w_fs, w_fs0, ci_file, ci_file0,
                   w_rendered, w_next, w_log>>
    /\ UNCHANGED <<planVars, pkgVars, vendorVars, configVars>>

NextWrite ==
    \/ GenerateGithubCi
    \/ VendorNextAction
    \/ WriteNewAll
    \/ DiffFiles

(* ---- specifications ----------------------------------------------------- *)

SpecPlan == InitPlan /\ [][NextPlan]_vars

SpecPkg == InitPkg /\ [][NextPkg]_vars

SpecVendor == InitVendor /\ [][NextVendor]_vars

SpecConfig == InitConfig /\ [][NextConfig]_vars

SpecWrite == InitWrite /\ [][NextWrite]_vars

(* ---- properties of the planner ------------------------------------------ *)

\* The planner has returned.
Planned == plan_pc \in {"tasks", "done", "panicked"}

\* The places <<group, position>> a target holds in the plan.
PlacesOf(t) ==
    {p \in UNION {{<<i, j>> : j \in 1..Len(local_runs[i][2])} : i \in 1..Len(local_runs)} :
        local_runs[p[1]][2][p[2]] = t}

PlannedTargets == UNION {Range(local_runs[i][2]) : i \in 1..Len(local_runs)}

\* C4: every target of the input set is in exactly one runner group, the
\* groups hold nothing but the input set, the split strategy yields |T|
\* groups and the merged strategy at most |T|.
C4_EveryTargetInExactlyOneGroup ==
    Planned =>
        /\ \A t \in local_targets : Cardinality(PlacesOf(t)) = 1
        /\ PlannedTargets = local_targets
        /\ ~merge_tasks => Len(local_runs) = Cardinality(local_targets)
        /\ merge_tasks => Len(local_runs) <= Cardinality(local_targets)

\* A merged plan of three targets in which two share a group.
C4_Witness ==
    /\ Planned
    /\ merge_tasks
    /\ Cardinality(local_targets) = 3
    /\ Len(local_runs) = 2

\* C5: planning never ends in a panic, and a finished plan has one task per
\* runner group.
C5_PlanningAlwaysCompletes ==
    /\ plan_pc # "panicked"
    /\ plan_pc = "done" => Len(tasks) = Len(local_runs)

\* The family rules, as the table of the documentation.
FamilyRunner(t) ==
    IF Contains(t, "linux") THEN Some("ubuntu-20.04")
    ELSE IF Contains(t, "x86_64-apple") THEN Some("macos-12")
    ELSE IF Contains(t, "aarch64-apple") THEN Some("macos-12")
    ELSE IF Contains(t, "windows") THEN Some("windows-2019")
    ELSE None

\* C6: the runner of a target's group is the override of exactly that
\* target if there is one, else the runner of the first matching family
\* rule, else ubuntu-20.04 with a warning; nothing else is warned about.
C6_RunnerResolution ==
    Planned =>
        /\ \A i \in 1..Len(local_runs) : \A t \in Range(local_runs[i][2]) :
              LET runner == local_runs[i][1]
              IN  /\ t \in DOMAIN custom_runners => runner = custom_runners[t]
                  /\ (t \notin DOMAIN custom_runners /\ IsSome(FamilyRunner(t)))
                        => runner = Unwrap(FamilyRunner(t))
                  /\ (t \notin DOMAIN custom_runners /\ ~IsSome(FamilyRunner(t)))
                        => runner = "ubuntu-20.04" /\ t \in Range(warnings)
        /\ \A t \in Range(warnings) :
              /\ t \in local_targets
              /\ t \notin DOMAIN custom_runners
              /\ ~IsSome(FamilyRunner(t))

\* A plan holding an overridden target, a warned one and one that carries
\* the markers of two families.
C6_Witness ==
    /\ Planned
    /\ "aarch64-apple-darwin" \in local_targets \cap DOMAIN custom_runners
    /\ "x86_64-apple-windows" \in local_targets
    /\ warnings = <<"x86_64-unknown-freebsd">>

\* The group a target was put in.
GroupOf(t) == CHOOSE i \in 1..Len(local_runs) : t \in Range(local_runs[i][2])

\* C7: in a merged plan two targets share a group exactly if they resolve
\* to the same runner, no two groups carry the same runner, and the Linux
\* and the Apple-silicon target without overrides make two groups.
C7_MergedGroupsByRunner ==
    (Planned /\ merge_tasks) =>
        /\ \A t, u \in local_targets :
              (GroupOf(t) = GroupOf(u))
                 <=> (runner_or_default(t, custom_runners)
                        = runner_or_default(u, custom_runners))
        /\ \A i, j \in 1..Len(local_runs) :
              i # j => local_runs[i][1] # local_runs[j][1]
        /\ (/\ local_targets = {"x86_64-unknown-linux-gnu", "aarch64-apple-darwin"}
            /\ custom_runners = <<>>)
              => local_runs = << <<"macos-12", <<"aarch64-apple-darwin">>>>,
                                 <<"ubuntu-20.04", <<"x86_64-unknown-linux-gnu">>>> >>

\* The merged plan of the Linux and the Apple-silicon target, no overrides.
C7_Witness ==
    /\ Planned
    /\ merge_tasks
    /\ local_targets = {"x86_64-unknown-linux-gnu", "aarch64-apple-darwin"}
    /\ custom_runners = <<>>
    /\ Len(local_runs) = 2

(* ---- properties of the system-dependency selector ------------------------ *)

KnownTargets == HomebrewTargets \cup AptTargets \cup ChocolateyTargets

FamilyOf(t) ==
    IF t \in HomebrewTargets THEN "homebrew"
    ELSE IF t \in AptTargets THEN "apt" ELSE "chocolatey"

\* The declarations of a family that apply to a target at build time.
Applicable(packages, family, t) ==
    {name \in DOMAIN packages[family] :
        /\ wanted_for_target(packages[family][name], t)
        /\ stage_wanted(packages[family][name], Build)}

\* The dependencies reduced to the applicable declarations of one family.
OnlyApplicable(packages, family, t) ==
    [f \in {"homebrew", "apt", "chocolatey"} |->
        IF f = family
        THEN [name \in Applicable(packages, family, t) |-> packages[family][name]]
        ELSE <<>>]

\* The positions of the group that hold a triple of a known family.
KnownPositions == {i \in 1..Len(pkg_targets) : pkg_targets[i] \in KnownTargets}

\* The first target of the group that is of a known family.
Chosen == pkg_targets[CHOOSE i \in KnownPositions : \A j \in KnownPositions : i <= j]

\* C9: the command is that of the first target of a known family alone,
\* given nothing but the applicable declarations of its family; it names
\* no package of another family or of a declaration that does not apply.
C9_FirstKnownTargetDecides ==
    pkg_pc = "done" =>
        IF KnownPositions = {} THEN pkg_result = None
        ELSE /\ pkg_result =
                   package_install_for_targets(<<Chosen>>,
                       OnlyApplicable(pkg_packages, FamilyOf(Chosen), Chosen))
             /\ \A slot \in DepSlots :
                   (IsSome(pkg_result) /\ Contains(Unwrap(pkg_result), slot[2]))
                      => /\ slot[1] = FamilyOf(Chosen)
                         /\ slot[2] \in Applicable(pkg_packages, slot[1], Chosen)
             /\ Applicable(pkg_packages, FamilyOf(Chosen), Chosen) # {}
                   => IsSome(pkg_result)

\* A group whose first target has nothing applicable while the Windows
\* target after it has: nothing is installed.
C9_Witness ==
    /\ pkg_pc = "done"
    /\ pkg_targets = <<"x86_64-apple-darwin", "x86_64-pc-windows-msvc">>
    /\ Applicable(pkg_packages, "homebrew", "x86_64-apple-darwin") = {}
    /\ DOMAIN pkg_packages.homebrew # {}
    /\ Applicable(pkg_packages, "chocolatey", "x86_64-pc-windows-msvc") # {}
    /\ pkg_result = None

\* C10 as stated: nothing applicable for the chosen target means no command.
C10_NoneWhenFilteredEmpty ==
    (/\ pkg_pc = "done"
     /\ KnownPositions # {}
     /\ Applicable(pkg_packages, FamilyOf(Chosen), Chosen) = {})
        => pkg_result = None

\* C10 amended: nothing applicable for the chosen target means no command,
\* unless the chosen target ends with linux-musl: then musl-tools alone is
\* installed.
C10_NoneWhenFilteredEmptyUnlessMusl ==
    (/\ pkg_pc = "done"
     /\ KnownPositions # {}
     /\ Applicable(pkg_packages, FamilyOf(Chosen), Chosen) = {})
        => IF EndsWith(Chosen, "linux-musl")
           THEN pkg_result = Some("sudo apt-get update && sudo apt-get install musl-tools")
           ELSE pkg_result = None

\* A Linux gnu target whose family has declarations, none applicable.
C10_Witness ==
    /\ pkg_pc = "done"
    /\ KnownPositions # {}
    /\ Chosen = "x86_64-unknown-linux-gnu"
    /\ DOMAIN pkg_packages.apt # {}
    /\ Applicable(pkg_packages, "apt", Chosen) = {}
    /\ pkg_result = None

\* The words of a command line, split at single spaces.
RECURSIVE Words(_)
Words(s) ==
    LET spaces == {k \in 1..Len(s) : CharAt(s, k) = " "}
    IN  IF spaces = {} THEN <<s>>
        ELSE LET k == CHOOSE x \in spaces : \A y \in spaces : x <= y
             IN  <<SubSeq(s, 1, k - 1)>> \o Words(SubSeq(s, k + 1, Len(s)))

AptPrefix == "sudo apt-get update && sudo apt-get install "

\* What an apt declaration must read as on the command line.
AptWord(packages, name) ==
    IF packages.apt[name].version = <<>> THEN name
    ELSE name \o "=" \o packages.apt[name].version[1]

\* C11: when the chosen target is a Linux triple and something is to be
\* installed, the result is one apt-get install invocation whose arguments
\* are, each exactly once, name=version for every applicable pinned
\* declaration, name for every applicable unpinned one, and musl-tools
\* exactly when the target ends with linux-musl; libssl-dev pinned to 3.0
\* for x86_64-unknown-linux-gnu puts libssl-dev=3.0 on the command line.
C11_AptRendersEveryDeclaration ==
    (/\ pkg_pc = "done"
     /\ KnownPositions # {}
     /\ Chosen \in AptTargets)
        => LET applicable == Applicable(pkg_packages, "apt", Chosen)
               musl == IF EndsWith(Chosen, "linux-musl") THEN {"musl-tools"} ELSE {}
               expected == {AptWord(pkg_packages, name) : name \in applicable} \cup musl
           IN  /\ expected # {} => IsSome(pkg_result)
               /\ IsSome(pkg_result) =>
                     LET command == Unwrap(pkg_result)
                         words == Words(SubSeq(command, Len(AptPrefix) + 1, Len(command)))
                     IN  /\ StartsWith(command, AptPrefix)
                         /\ Range(words) = expected
                         /\ Len(words) = Cardinality(expected)
                         /\ "musl-tools" \in Range(words) <=> EndsWith(Chosen, "linux-musl")
               /\ (/\ Chosen = "x86_64-unknown-linux-gnu"
                   /\ "libssl-dev" \in applicable
                   /\ pkg_packages.apt["libssl-dev"].version = <<"3.0">>)
                      => /\ IsSome(pkg_result)
                         /\ Contains(Unwrap(pkg_result), "libssl-dev=3.0")

\* A gnu target with a pinned libssl-dev and an unpinned cmake, both
\* applicable: one invocation naming both.
C11_Witness ==
    /\ pkg_pc = "done"
    /\ KnownPositions # {}
    /\ Chosen = "x86_64-unknown-linux-gnu"
    /\ Applicable(pkg_packages, "apt", Chosen) = {"libssl-dev", "cmake"}
    /\ pkg_packages.apt["libssl-dev"].version = <<"3.0">>
    /\ pkg_packages.apt["cmake"].version = <<>>
    /\ pkg_result = Some("sudo apt-get update && sudo apt-get install cmake libssl-dev=3.0")

(* ---- properties of vendor_repo -------------------------------------------- *)

Returned(i) == v_pc[i] = "done"
ResultOf(i) == Unwrap(v_result[i])
Mismatched(i) == Returned(i) /\ ResultOf(i).kind = "VendoredActionHashMismatch"

\* C1: a fetched stream whose digest differs from expected_hash makes the
\* call return the mismatch error with the expected hash, the actual hash
\* and the repository, without an extraction or rename step; a directory
\* an invocation put under root holds an archive with the expected digest.
C1_FailsClosed ==
    /\ \A i \in Procs :
          (/\ "check" \in v_steps[i]
           /\ hash_string_of(Unwrap(v_fetched[i])) # v_call[i].expected_hash)
             => /\ Returned(i)
                /\ ResultOf(i) =
                      [kind |-> "VendoredActionHashMismatch",
                       expected |-> v_call[i].expected_hash,
                       actual |-> hash_string_of(Unwrap(v_fetched[i])),
                       repo |-> v_call[i].repo.owner \o "/" \o v_call[i].repo.repo]
                /\ v_steps[i] \cap {"write", "untar", "rename"} = {}
    /\ \A i \in Procs :
          Mismatched(i) => hash_string_of(Unwrap(v_fetched[i])) # v_call[i].expected_hash
    /\ \A p \in AllPaths :
          (IsDir(fs[p]) /\ fs[p].by # 0)
             => hash_string_of(fs[p].tree) = v_call[fs[p].by].expected_hash

\* A call that returned the mismatch error for a stream that differs from
\* the pinned archive in one byte.
C1_Witness ==
    /\ Mismatched(1)
    /\ v_call[1].repo.repo = "download-artifact"
    /\ v_fetched[1] = Some(<<1, 1>>)
    /\ v_call[1].expected_hash = hash_string_of(<<0, 1>>)

\* Invocation i is the only one that has started.
RunsAlone(i) == \A j \in Procs \ {i} : v_pc[j] = "exists"

\* C2: after a call that fails on a hash mismatch, a copy vendored before
\* is still at the destination, unmodified.
C2_MismatchLeavesPriorCopy ==
    \A i \in Procs :
        (/\ RunsAlone(i)
         /\ Mismatched(i)
         /\ IsDir(fs0[repo_path(v_call[i])]))
           => fs[repo_path(v_call[i])] = fs0[repo_path(v_call[i])]

\* C3: after a call that fails in the fetch, the write of the archive, the
\* extraction or the rename, the destination is as it was before the call
\* and no extracted directory is left under root.
C3_IoFailureIsAtomic ==
    \A i \in Procs :
        (/\ RunsAlone(i)
         /\ Returned(i)
         /\ ResultOf(i).kind = "Io"
         /\ ResultOf(i).step \in {"fetch", "write", "untar", "rename"})
           => /\ fs[repo_path(v_call[i])] = fs0[repo_path(v_call[i])]
              /\ fs[extracted_path(v_call[i])] = fs0[extracted_path(v_call[i])]

\* The names under root an invocation works on: "repo" and "repo-revision".
PathsOf(i) ==
    {v_call[i].repo.repo, v_call[i].repo.repo \o "-" \o v_call[i].revision}

\* What invocation i leaves behind when it runs alone from fs0, with the
\* bytes it fetched (the pinned archive if it did not get to fetch) and
\* with its I/O operations going as they went.
Alone(i) ==
    VendorAlone(v_call[i], i, fs0,
                IF IsSome(v_fetched[i]) THEN Unwrap(v_fetched[i])
                ELSE PinnedArchive(v_call[i].repo, v_call[i].revision),
                v_luck[i])

\* Invocation i ended as if it had run alone, and put nothing where only
\* the other invocation works.
Independent(i) ==
    /\ v_result[i] = Some(Alone(i).result)
    /\ \A p \in AllPaths :
          IF p \in PathsOf(i) THEN fs[p] = Alone(i).fs[p]
          ELSE IsDir(fs[p]) => fs[p].by # i

VendoredRepos == <<"actions/download-artifact", "ncipollo/release-action",
                   "Swatinem/rust-cache", "actions/upload-artifact">>
VendoredDirs == <<"download-artifact", "release-action", "rust-cache",
                  "upload-artifact">>

\* The positions in the log of the calls of a function.
CallsOf(function) == {k \in 1..Len(w_log) : w_log[k].call = function}

\* A directory vendored whole by the k-th vendor_repo call of this run.
VendoredBy(k) ==
    /\ w_fs[VendoredDirs[k]].kind = "dir"
    /\ w_fs[VendoredDirs[k]].whole
    /\ w_fs[VendoredDirs[k]].by = k

\* C18: write_to_disk with vendoring enabled calls vendor_repo for the four
\* actions in the order of the list and writes the workflow file only
\* after all four calls succeeded; the first call that fails ends the run
\* with its error: no later action is attempted, the earlier ones stay
\* vendored and the workflow file is not written. With vendoring disabled
\* vendor_repo is never called. check writes nothing.
C18_VendorsInOrderThenWrites ==
    LET vendored == CallsOf("vendor_repo")
        written == CallsOf("write_new_all")
        failed == {k \in vendored : w_log[k].result.kind # "Ok"}
    IN  /\ \A k \in vendored :
              /\ k <= Len(VendoredRepos)
              /\ w_log[k].argument = VendoredRepos[k]
              /\ \A j \in 1..(k - 1) : j \in vendored /\ j \notin failed
        /\ \A k \in written :
              IF vendor_workflow_deps
              THEN vendored = 1..Len(VendoredRepos) /\ failed = {} /\ k = Len(w_log)
              ELSE k = 1
        /\ \A k \in failed :
              /\ Len(w_log) = k
              /\ w_pc = "done"
              /\ w_result = <<w_log[k].result>>
              /\ ci_file = ci_file0
              /\ \A j \in 1..(k - 1) : VendoredBy(j)
        /\ ~vendor_workflow_deps => vendored = {}
        /\ w_call = "check" => /\ w_log = <<>>
                               /\ w_fs = w_fs0
                               /\ ci_file = ci_file0
        /\ (w_call = "write_to_disk" /\ w_pc = "done" /\ w_result = <<[kind |-> "Ok"]>>)
              => /\ ci_file = <<RenderedWorkflow>>
                 /\ vendor_workflow_deps => \A j \in 1..Len(VendoredRepos) : VendoredBy(j)

\* The third action fails its hash check: two actions are vendored, the
\* fourth was not attempted and the stale workflow file is still there.
C18_Witness ==
    /\ w_call = "write_to_disk"
    /\ vendor_workflow_deps
    /\ w_pc = "done"
    /\ Len(w_log) = 3
    /\ w_log[3].call = "vendor_repo"
    /\ w_log[3].argument = "Swatinem/rust-cache"
    /\ w_log[3].result.kind = "VendoredActionHashMismatch"
    /\ VendoredBy(1)
    /\ VendoredBy(2)
    /\ w_fs["upload-artifact"].kind = "absent"
    /\ ci_file0 = <<StaleWorkflow>>
    /\ ci_file = ci_file0

(* ---- properties of the configuration layers ------------------------------ *)

\* The settings of each scope, by the path of field names that leads to them.
WorkspaceLeaves == {"dist_version", "allow_dirty", "ci.fail_fast", "ci.dispatch_releases"}
PackageLeaves == {"dist", "targets", "artifacts.archives.include", "artifacts.extra",
                  "builds.macos_sign", "hosts.github", "installers.install_path",
                  "publishers.prereleases"}

\* The settings the call's scope merges from a layer.
ScopeLeaves == IF cfg_call = "workspace_config" THEN WorkspaceLeaves ELSE PackageLeaves

\* Every setting the call's accumulator and resolved configuration have:
\* the workspace's also have hosts, builds and installers.
ConfigLeaves ==
    IF cfg_call = "workspace_config"
    THEN WorkspaceLeaves \cup {"hosts.github", "builds.macos_sign",
                               "installers.install_path"}
    ELSE PackageLeaves

\* What a layer sets a setting to: <<>> if it does not set it.
LayerSlot(layer, leaf) ==
    LET In(field, sub) == IF layer[field] = <<>> THEN <<>> ELSE layer[field][1][sub]
    IN  CASE leaf = "ci.fail_fast" -> In("ci", "fail_fast")
          [] leaf = "ci.dispatch_releases" -> In("ci", "dispatch_releases")
          [] leaf = "artifacts.archives.include" ->
                IF In("artifacts", "archives") = <<>> THEN <<>>
                ELSE In("artifacts", "archives")[1].include
          [] leaf = "artifacts.extra" -> In("artifacts", "extra")
          [] leaf = "builds.macos_sign" -> In("builds", "macos_sign")
          [] leaf = "hosts.github" -> In("hosts", "github")
          [] leaf = "installers.install_path" -> In("installers", "install_path")
          [] leaf = "publishers.prereleases" -> In("publishers", "prereleases")
          [] OTHER -> layer[leaf]

\* What an accumulator or a resolved configuration holds for a setting.
ConfigSlot(c, leaf) ==
    CASE leaf = "ci.fail_fast" -> c.ci.fail_fast
      [] leaf = "ci.dispatch_releases" -> c.ci.dispatch_releases
      [] leaf = "artifacts.archives.include" -> c.artifacts.archives.include
      [] leaf = "artifacts.extra" -> c.artifacts.extra
      [] leaf = "builds.macos_sign" -> c.builds.macos_sign
      [] leaf = "hosts.github" -> c.hosts.github
      [] leaf = "installers.install_path" -> c.installers.install_path
      [] leaf = "publishers.prereleases" -> c.publishers.prereleases
      [] OTHER -> c[leaf]

\* The top-level field a setting is under.
FieldOf(leaf) ==
    CASE leaf \in {"ci.fail_fast", "ci.dispatch_releases"} -> "ci"
      [] leaf \in {"artifacts.archives.include", "artifacts.extra"} -> "artifacts"
      [] leaf = "builds.macos_sign" -> "builds"
      [] leaf = "hosts.github" -> "hosts"
      [] leaf = "installers.install_path" -> "installers"
      [] leaf = "publishers.prereleases" -> "publishers"
      [] OTHER -> leaf

\* The call has returned.
Resolved == cfg_call # "none" /\ cfg_result # <<>>
ResolvedConfig == cfg_result[1]

\* C12 as stated: config.apply_layer(layer) leaves every setting of the
\* accumulator that the layer sets at the layer's value and every other
\* one as it was.
C12_ApplyOverwritesEverySetField ==
    [][\A file \in {"global", "local"} :
          (At("apply_" \o file) /\ cfg_pc' = cfg_pc + 1) =>
             LET layer == IF file = "global" THEN global_config ELSE local_config
             IN  \A leaf \in ConfigLeaves :
                    ConfigSlot(config', leaf) =
                       IF LayerSlot(layer, leaf) # <<>> THEN LayerSlot(layer, leaf)
                       ELSE ConfigSlot(config, leaf)]_vars

\* C12 amended: config.apply_layer(layer), on the workspace accumulator and
\* on the package accumulator alike, leaves every setting that the scope
\* merges and the layer sets at the layer's value, and every other one,
\* like every field the scope does not merge (hosts, builds and installers
\* of the workspace accumulator among them), as it was; a layer that sets
\* nothing changes nothing.
C12_ApplyOverwritesWhatIsSet ==
    [][\A file \in {"global", "local"} :
          (At("apply_" \o file) /\ cfg_pc' = cfg_pc + 1) =>
             LET layer == IF file = "global" THEN global_config ELSE local_config
             IN  /\ DOMAIN config' = DOMAIN config
                 /\ \A leaf \in ScopeLeaves :
                       ConfigSlot(config', leaf) =
                          IF LayerSlot(layer, leaf) # <<>> THEN LayerSlot(layer, leaf)
                          ELSE ConfigSlot(config, leaf)
                 /\ \A f \in DOMAIN config \ {FieldOf(leaf) : leaf \in ScopeLeaves} :
                       config'[f] = config[f]
                 /\ layer = EmptyLayer => config' = config]_vars

\* The package's layer has set dist on an accumulator whose targets the
\* workspace's layer had set: dist is the package's, targets still the
\* workspace's.
C12_Witness ==
    /\ cfg_call = "app_config"
    /\ cfg_log = <<"relative_global", "relative_local", "defaults", "apply_global",
                   "apply_local">>
    /\ in_global.targets = <<<<"x86_64-unknown-linux-gnu">>>>
    /\ in_local.targets = <<>>
    /\ in_local.dist = <<FALSE>>
    /\ config.targets = <<<<"x86_64-unknown-linux-gnu">>>>
    /\ config.dist = <<FALSE>>

\* The position of a statement in the log; 0 if it was not executed.
PositionOf(statement) ==
    IF \E k \in 1..Len(cfg_log) : cfg_log[k] = statement
    THEN CHOOSE k \in 1..Len(cfg_log) : cfg_log[k] = statement
    ELSE 0

\* C13: app_config applies the workspace's layer before the package's; a
\* package-scope setting both layers set resolves to the package's value,
\* one only the workspace's layer sets resolves to the workspace's value.
C13_PackageLayerWins ==
    (cfg_call = "app_config" /\ Resolved) =>
        /\ 0 < PositionOf("apply_global")
        /\ PositionOf("apply_global") < PositionOf("apply_local")
        /\ \A leaf \in PackageLeaves :
              LET global == LayerSlot(global_config, leaf)
                  local == LayerSlot(local_config, leaf)
              IN  /\ (global # <<>> /\ local # <<>>)
                         => ConfigSlot(ResolvedConfig, leaf) = local
                  /\ (global # <<>> /\ local = <<>>)
                         => ConfigSlot(ResolvedConfig, leaf) = global

\* Both layers set targets and only the workspace's sets dist.
C13_Witness ==
    /\ cfg_call = "app_config"
    /\ Resolved
    /\ in_global.targets = <<<<"x86_64-unknown-linux-gnu">>>>
    /\ in_local.targets = <<<<"aarch64-apple-darwin">>>>
    /\ in_global.dist = <<TRUE>>
    /\ in_local.dist = <<>>
    /\ ResolvedConfig.targets = <<<<"aarch64-apple-darwin">>>>
    /\ ResolvedConfig.dist = <<TRUE>>

\* C14 as stated: with ci.fail_fast = true in the workspace's layer and
\* nothing in the package's, the package's resolved configuration holds
\* fail_fast = true.
C14_WorkspaceCiInPackageConfig ==
    (/\ cfg_call = "app_config"
     /\ Resolved
     /\ LayerSlot(in_global, "ci.fail_fast") = <<TRUE>>
     /\ in_local = EmptyLayer)
        => /\ "ci" \in DOMAIN ResolvedConfig
           /\ ResolvedConfig.ci.fail_fast = <<TRUE>>

\* C14 amended: a CI setting the workspace's layer sets is the value of
\* that setting in the workspace's resolved configuration; the package's
\* resolved configuration has no CI settings at all.
C14_WorkspaceCiInWorkspaceConfig ==
    Resolved =>
        IF cfg_call = "workspace_config"
        THEN \A leaf \in {"ci.fail_fast", "ci.dispatch_releases"} :
                LayerSlot(in_global, leaf) # <<>>
                   => ConfigSlot(ResolvedConfig, leaf) = LayerSlot(in_global, leaf)
        ELSE "ci" \notin DOMAIN ResolvedConfig

\* The workspace resolved from a layer that sets ci.fail_fast = true.
C14_Witness ==
    /\ cfg_call = "workspace_config"
    /\ Resolved
    /\ SetFields(in_global) = {"ci"}
    /\ LayerSlot(in_global, "ci.fail_fast") = <<TRUE>>
    /\ ResolvedConfig.ci.fail_fast = <<TRUE>>

\* The two fields that are an Option in the resolved configurations.
OptionalLeaves == {"dist_version", "dist"}

\* C15 as stated: no setting of a resolved configuration is unset.
C15_NothingUnset ==
    Resolved => \A leaf \in ConfigLeaves : ConfigSlot(ResolvedConfig, leaf) # <<>>

\* C15 amended: no setting of a resolved configuration is unset, except
\* dist_version (workspace) and dist (package), which are unset exactly
\* when no layer applied to the scope sets them.
C15_NothingUnsetButOptions ==
    Resolved =>
        /\ \A leaf \in ConfigLeaves \ OptionalLeaves :
              ConfigSlot(ResolvedConfig, leaf) # <<>>
        /\ \A leaf \in ConfigLeaves \cap OptionalLeaves :
              ConfigSlot(ResolvedConfig, leaf) = <<>>
                 <=> /\ in_global[leaf] = <<>>
                     /\ cfg_call = "app_config" => in_local[leaf] = <<>>

\* A package resolved from two layers that set nothing: every nested
\* setting has its default, dist has no value.
C15_Witness ==
    /\ cfg_call = "app_config"
    /\ Resolved
    /\ in_global = EmptyLayer
    /\ in_local = EmptyLayer
    /\ ResolvedConfig.builds.macos_sign = <<FALSE>>
    /\ ResolvedConfig.targets = <<<<>>>>
    /\ ResolvedConfig.dist = <<>>

\* A layer with F applied to each of its paths.
MapPaths(layer, F(_)) ==
    LET artifacts ==
            IF layer.artifacts = <<>> THEN <<>>
            ELSE LET a == layer.artifacts[1]
                     archives ==
                        IF a.archives = <<>> THEN <<>>
                        ELSE IF a.archives[1].include = <<>> THEN a.archives
                        ELSE LET include == a.archives[1].include[1]
                             IN  <<[include |->
                                      <<[i \in DOMAIN include |-> F(include[i])]>>]>>
                     extra ==
                        IF a.extra = <<>> THEN <<>>
                        ELSE <<[i \in DOMAIN a.extra[1] |->
                                  [working_dir |-> F(a.extra[1][i].working_dir)]]>>
                 IN  <<[archives |-> archives, extra |-> extra]>>
        hosts ==
            IF layer.hosts = <<>> THEN <<>>
            ELSE LET github == layer.hosts[1].github
                 IN  IF github = <<>> THEN layer.hosts
                     ELSE IF github[1].kind # "val" THEN layer.hosts
                     ELSE IF github[1].val.submodule_path = <<>> THEN layer.hosts
                     ELSE <<[github |->
                               <<[kind |-> "val",
                                  val |-> [submodule_path |->
                                     <<F(github[1].val.submodule_path[1])>>]]>>]>>
    IN  [f \in DOMAIN layer |->
            IF f = "artifacts" THEN artifacts
            ELSE IF f = "hosts" THEN hosts ELSE layer[f]]

\* The paths a layer holds.
LayerPaths(layer) ==
    LET include == LayerSlot(layer, "artifacts.archives.include")
        extra == LayerSlot(layer, "artifacts.extra")
        github == LayerSlot(layer, "hosts.github")
    IN  (IF include = <<>> THEN {} ELSE Range(include[1]))
        \cup (IF extra = <<>> THEN {}
              ELSE {extra[1][i].working_dir : i \in DOMAIN extra[1]})
        \cup (IF github = <<>> THEN {}
              ELSE IF github[1].kind # "val" THEN {}
              ELSE IF github[1].val.submodule_path = <<>> THEN {}
              ELSE {github[1].val.submodule_path[1]})

\* How often a statement was executed.
TimesExecuted(statement) == Cardinality({k \in 1..Len(cfg_log) : cfg_log[k] = statement})

\* C16: each layer is made relative once, before anything is merged and
\* before it is merged itself, to the directory of its own file: the
\* workspace's layer to the workspace directory, the package's to the
\* package root; a path that is not absolute becomes base/path, an
\* absolute one stays; no path of the workspace's layer is put under the
\* package root.
C16_PathsRelativeToOwnFile ==
    LET InWorkspace(p) == IF StartsWith(p, "/") THEN p ELSE "/ws/" \o p
        InPackage(p) == IF StartsWith(p, "/") THEN p ELSE "/ws/app/" \o p
        Merging == {k \in 1..Len(cfg_log) :
                       cfg_log[k] \in {"defaults", "apply_global", "apply_local",
                                       "inheritance"}}
    IN  /\ TimesExecuted("relative_global") <= 1
        /\ TimesExecuted("relative_local") <= 1
        /\ Merging # {} =>
              /\ TimesExecuted("relative_global") = 1
              /\ cfg_call = "app_config" => TimesExecuted("relative_local") = 1
              /\ \A k \in Merging :
                    /\ PositionOf("relative_global") < k
                    /\ PositionOf("relative_local") < k
        /\ global_config = IF PositionOf("relative_global") = 0 THEN in_global
                           ELSE MapPaths(in_global, InWorkspace)
        /\ local_config = IF PositionOf("relative_local") = 0 THEN in_local
                          ELSE MapPaths(in_local, InPackage)
        /\ \A p \in LayerPaths(global_config) : ~StartsWith(p, "/ws/app/")
        /\ (cfg_call = "app_config" /\ Resolved) =>
              \A leaf \in {"artifacts.archives.include", "artifacts.extra", "hosts.github"} :
                 /\ (LayerSlot(in_global, leaf) # <<>> /\ LayerSlot(in_local, leaf) = <<>>)
                       => ConfigSlot(ResolvedConfig, leaf)
                             = LayerSlot(MapPaths(in_global, InWorkspace), leaf)
                 /\ LayerSlot(in_local, leaf) # <<>>
                       => ConfigSlot(ResolvedConfig, leaf)
                             = LayerSlot(MapPaths(in_local, InPackage), leaf)

\* A package resolved from a workspace layer with a relative and an
\* absolute include path and a package layer with a relative working
\* directory.
C16_Witness ==
    /\ cfg_call = "app_config"
    /\ Resolved
    /\ cfg_log = <<"relative_global", "relative_local", "defaults", "apply_global",
                   "apply_local", "inheritance">>
    /\ LayerSlot(in_global, "artifacts.archives.include") = <<<<"assets", "/opt/data">>>>
    /\ LayerSlot(in_local, "artifacts.extra") = <<<<[working_dir |-> "docs"]>>>>
    /\ ResolvedConfig.artifacts.archives.include = <<<<"/ws/assets", "/opt/data">>>>
    /\ ResolvedConfig.artifacts.extra = <<<<[working_dir |-> "/ws/app/docs"]>>>>

====
